---- MODULE Spec2Model ----
(***************************************************************************)
(* Model of src/model.py: the accessors total_revenue and iscr, and the   *)
(* orchestrator probe_model_5l_profit with the collaborators it imports   *)
(* from the sibling module `rule`.                                        *)
(*                                                                        *)
(* Python values are tagged records.  The outcome of evaluating a Python  *)
(* expression is either Return(value) or Raise(exception name).  Floats   *)
(* are modelled as reduced fractions num/den with den > 0 (rounding of    *)
(* IEEE doubles is outside the model).                                    *)
(***************************************************************************)
EXTENDS Integers, Sequences, FiniteSets, TLC

VARIABLES
    data,                               \* the record handed to the program
    financial_index, last, ret,         \* a direct accessor call and its outcome
    latest_period,                      \* the period the rule module holds latest
    pc,                                 \* position inside probe_model_5l_profit
    lastest_financial_index_value,      \* locals of probe_model_5l_profit
    total_revenue_5cr_flag_value,
    borrowing_to_revenue_flag_value,
    iscr_flag_value,
    calls,                              \* collaborator calls of the current invocation
    outputs                             \* outcomes of the finished invocations

accessorVars == <<financial_index, last, ret>>

locals == <<lastest_financial_index_value, total_revenue_5cr_flag_value,
            borrowing_to_revenue_flag_value, iscr_flag_value>>

probeVars == <<latest_period, pc, locals, calls, outputs>>

vars == <<data, accessorVars, probeVars>>

----------------------------------------------------------------------------
(* Bounds of the model *)

MaxEntries == 2
MaxStrLen == 2
MaxCalls == 2

----------------------------------------------------------------------------
(* Python values and outcomes *)

PyInt(n) == [t |-> "int", i |-> n]
PyStr(s) == [t |-> "str", s |-> s]
PyNone == [t |-> "None"]
PyDict(m) == [t |-> "dict", m |-> m]
PyList(l) == [t |-> "list", l |-> l]
PyBool(b) == [t |-> "bool", b |-> b]

Return(x) == [k |-> "return", v |-> x]
Raise(e) == [k |-> "raise", exc |-> e]

Then(o, F(_)) == IF o.k = "raise" THEN o ELSE F(o.v)

Abs(n) == IF n < 0 THEN -n ELSE n

RECURSIVE GCD(_, _)
GCD(a, b) == IF b = 0 THEN a ELSE GCD(b, a % b)

PyFloat(num, den) ==
    LET g == GCD(Abs(num), Abs(den))
        s == IF den < 0 THEN -1 ELSE 1
    IN [t |-> "float", num |-> s * (num \div g), den |-> s * (den \div g)]

----------------------------------------------------------------------------
(* Built-in operations used by the accessors *)

\* The subclass relation of the built-in exceptions the code can meet.
ExceptionBases(e) ==
    CASE e = "KeyError" -> {"KeyError", "LookupError", "Exception"}
      [] e = "IndexError" -> {"IndexError", "LookupError", "Exception"}
      [] e = "ValueError" -> {"ValueError", "Exception"}
      [] e = "TypeError" -> {"TypeError", "Exception"}
      [] e = "AttributeError" -> {"AttributeError", "Exception"}
      [] e = "ZeroDivisionError" -> {"ZeroDivisionError", "ArithmeticError", "Exception"}
      [] OTHER -> {e, "Exception"}

\* try: body  except (caught): return handler
TryExcept(body, caught, handler) ==
    IF body.k = "raise" /\ ExceptionBases(body.exc) \cap caught # {}
    THEN Return(handler)
    ELSE body

\* x.get(key, default)
DictGet(x, key, default) ==
    IF x.t = "dict"
    THEN Return(IF key \in DOMAIN x.m THEN x.m[key] ELSE default)
    ELSE Raise("AttributeError")

\* x[index]
GetItem(x, index) ==
    CASE x.t = "list" ->
           IF index.t # "int" THEN Raise("TypeError")
           ELSE LET n == Len(x.l)
                    p == IF index.i < 0 THEN index.i + n ELSE index.i
                IN IF p < 0 \/ p >= n THEN Raise("IndexError")
                   ELSE Return(x.l[p + 1])
      [] x.t = "dict" ->
           \* keys of a JSON object are strings; an int or None key is absent
           Raise("KeyError")
      [] OTHER -> Raise("TypeError")

IsDigit(c) == c \in {"0", "1", "2", "3", "4", "5", "6", "7", "8", "9"}

DigitValue(c) ==
    CASE c = "0" -> 0 [] c = "1" -> 1 [] c = "2" -> 2 [] c = "3" -> 3
      [] c = "4" -> 4 [] c = "5" -> 5 [] c = "6" -> 6 [] c = "7" -> 7
      [] c = "8" -> 8 [] c = "9" -> 9

RECURSIVE DigitsValue(_)
DigitsValue(s) ==
    IF s = <<>> THEN 0
    ELSE 10 * DigitsValue(SubSeq(s, 1, Len(s) - 1)) + DigitValue(s[Len(s)])

AllDigits(s) == s # <<>> /\ \A j \in 1..Len(s) : IsDigit(s[j])

\* float(str) over the alphabet of the model: an optional sign and digits
ParseFloat(s) ==
    IF AllDigits(s) THEN Return(PyFloat(DigitsValue(s), 1))
    ELSE IF s # <<>> /\ s[1] \in {"-", "+"} /\ AllDigits(Tail(s))
         THEN Return(PyFloat((IF s[1] = "-" THEN -1 ELSE 1) * DigitsValue(Tail(s)), 1))
         ELSE Raise("ValueError")

\* float(x)
ToFloat(x) ==
    CASE x.t = "int" -> Return(PyFloat(x.i, 1))
      [] x.t = "float" -> Return(x)
      [] x.t = "bool" -> Return(PyFloat(IF x.b THEN 1 ELSE 0, 1))
      [] x.t = "str" -> ParseFloat(x.s)
      [] OTHER -> Raise("TypeError")

\* x + y
PyAdd(x, y) ==
    CASE x.t = "int" /\ y.t = "int" -> Return(PyInt(x.i + y.i))
      [] x.t = "str" /\ y.t = "str" -> Return(PyStr(x.s \o y.s))
      [] x.t = "list" /\ y.t = "list" -> Return(PyList(x.l \o y.l))
      [] OTHER -> Raise("TypeError")

\* x / y
PyTrueDiv(x, y) ==
    IF x.t = "int" /\ y.t = "int"
    THEN IF y.i = 0 THEN Raise("ZeroDivisionError")
         ELSE Return(PyFloat(x.i, y.i))
    ELSE Raise("TypeError")

----------------------------------------------------------------------------
(* The accessors of src/model.py *)

\* LineItemGet with 1 for the default of the line item
LineItemGet_default_one(financial_entry, name) ==
    Then(DictGet(financial_entry, "pnl", PyDict(<<>>)), LAMBDA pnl :
    Then(DictGet(pnl, "lineItems", PyDict(<<>>)), LAMBDA lineItems :
    DictGet(lineItems, name, PyInt(1))))

\* financial_entry.get("pnl", {}).get("lineItems", {}).get(name, 0)
LineItemGet(financial_entry, name) ==
    Then(DictGet(financial_entry, "pnl", PyDict(<<>>)), LAMBDA pnl :
    Then(DictGet(pnl, "lineItems", PyDict(<<>>)), LAMBDA lineItems :
    DictGet(lineItems, name, PyInt(0))))

\* data.get("financials")[financial_index]
FinancialEntry(d, index) ==
    Then(DictGet(d, "financials", PyNone), LAMBDA financials :
    GetItem(financials, index))

\* total_revenue reading the first entry whatever the index
total_revenue_first_entry(d, index) ==
    TryExcept(
        Then(FinancialEntry(d, PyInt(0)), LAMBDA financial_entry :
        Then(LineItemGet(financial_entry, "netRevenue"), LAMBDA net_revenue :
        ToFloat(net_revenue))),
        {"KeyError", "ValueError"},
        PyFloat(0, 1))

total_revenue(d, index) ==
    TryExcept(
        Then(FinancialEntry(d, index), LAMBDA financial_entry :
        Then(LineItemGet(financial_entry, "netRevenue"), LAMBDA net_revenue :
        ToFloat(net_revenue))),
        {"KeyError", "ValueError"},
        PyFloat(0, 1))

iscr(d, index) ==
    TryExcept(
        Then(FinancialEntry(d, index), LAMBDA financial_entry :
        Then(LineItemGet(financial_entry, "profitBeforeInterestAndTax"), LAMBDA pbit :
        Then(LineItemGet(financial_entry, "depreciation"), LAMBDA depreciation :
        Then(LineItemGet(financial_entry, "interestExpenses"), LAMBDA interest_expenses :
        Then(PyAdd(pbit, depreciation), LAMBDA s1 :
        Then(PyAdd(s1, PyInt(1)), LAMBDA numerator :
        Then(PyAdd(interest_expenses, PyInt(1)), LAMBDA denominator :
        PyTrueDiv(numerator, denominator)))))))),
        {"KeyError", "ValueError"},
        PyFloat(0, 1))

----------------------------------------------------------------------------
(* The collaborators imported from the sibling module `rule` *)

RevenueThreshold == 50000000
\* borrowing above one part in BorrowingToRevenueParts of the revenue is flagged
BorrowingToRevenueParts == 4
IscrThreshold == 2

\* the sentinel latest_financial_index gives for a record without entries
NoPeriod == PyNone

\* The index of the most recent period: the answer the rule module gives for
\* the record at hand, or a fault when "financials" is not a sequence.
latest_financial_index(d) ==
    Then(DictGet(d, "financials", PyNone), LAMBDA financials :
    IF financials.t = "list" THEN Return(latest_period) ELSE Raise("TypeError"))

\* totalBorrowing of the balance sheet of the entry, 0.0 by default
total_borrowing(d, index) ==
    TryExcept(
        Then(FinancialEntry(d, index), LAMBDA financial_entry :
        Then(DictGet(financial_entry, "balanceSheet", PyDict(<<>>)), LAMBDA sheet :
        Then(DictGet(sheet, "totalBorrowing", PyInt(0)), LAMBDA borrowing :
        ToFloat(borrowing)))),
        {"KeyError", "ValueError"},
        PyFloat(0, 1))

\* Each flag is false for the sentinel: there is no period to judge.
total_revenue_5cr_flag(d, index) ==
    IF index = NoPeriod THEN Return(PyBool(FALSE)) ELSE
    Then(total_revenue(d, index), LAMBDA revenue :
    Return(PyBool(revenue.num >= RevenueThreshold * revenue.den)))

borrowing_to_revenue_flag(d, index) ==
    IF index = NoPeriod THEN Return(PyBool(FALSE)) ELSE
    Then(total_revenue(d, index), LAMBDA revenue :
    Then(total_borrowing(d, index), LAMBDA borrowing :
    Return(PyBool(BorrowingToRevenueParts * borrowing.num * revenue.den
                    > revenue.num * borrowing.den))))

iscr_flag(d, index) ==
    IF index = NoPeriod THEN Return(PyBool(FALSE)) ELSE
    Then(iscr(d, index), LAMBDA value :
    Return(PyBool(value.num < IscrThreshold * value.den)))

----------------------------------------------------------------------------
(* The orchestrator of src/model.py *)

\* FlagResult with the values of two keys swapped
FlagResult_swapped(revenue_flag, borrowing_flag, coverage_flag) ==
    PyDict([flags |-> PyDict(
        [key \in {"TOTAL_REVENUE_5CR_FLAG", "BORROWING_TO_REVENUE_FLAG", "ISCR_FLAG"} |->
            CASE key = "TOTAL_REVENUE_5CR_FLAG" -> borrowing_flag
              [] key = "BORROWING_TO_REVENUE_FLAG" -> revenue_flag
              [] key = "ISCR_FLAG" -> coverage_flag])])

FlagResult(revenue_flag, borrowing_flag, coverage_flag) ==
    PyDict([flags |-> PyDict(
        [key \in {"TOTAL_REVENUE_5CR_FLAG", "BORROWING_TO_REVENUE_FLAG", "ISCR_FLAG"} |->
            CASE key = "TOTAL_REVENUE_5CR_FLAG" -> revenue_flag
              [] key = "BORROWING_TO_REVENUE_FLAG" -> borrowing_flag
              [] key = "ISCR_FLAG" -> coverage_flag])])

Call(fn, index, out) == [fn |-> fn, index |-> index, out |-> out]

----------------------------------------------------------------------------
(* Input records *)

Chars == {"1", "-", "n"}

RECURSIVE StringsUpTo(_)
StringsUpTo(n) ==
    IF n = 0 THEN {<<>>}
    ELSE LET shorter == StringsUpTo(n - 1)
         IN shorter \cup {Append(s, c) : s \in {x \in shorter : Len(x) = n - 1}, c \in Chars}

Absent == [t |-> "absent"]

\* a JSON object holding the keys of f that are not Absent
ObjectOf(f) == PyDict([key \in {x \in DOMAIN f : f[x] # Absent} |-> f[key]])

NetRevenueValues ==
    {Absent, PyNone} \cup {PyInt(n) : n \in {-1, 0, 7, 60000000}}
      \cup {PyStr(s) : s \in StringsUpTo(MaxStrLen)}

NumeratorValues == {Absent, PyNone, PyInt(0), PyInt(9), PyStr(<<"n">>)}

InterestValues ==
    {Absent, PyNone, PyInt(-2), PyInt(-1), PyInt(0), PyInt(9), PyStr(<<"1">>)}

\* line items: every netRevenue with a few ISCR triples, and every ISCR
\* triple with a few netRevenue values
LineItemsObjects ==
    {ObjectOf([netRevenue |-> nr, profitBeforeInterestAndTax |-> t[1],
               depreciation |-> t[2], interestExpenses |-> t[3]]) :
        nr \in NetRevenueValues,
        t \in {<<Absent, Absent, Absent>>, <<PyInt(9), PyInt(0), PyInt(9)>>}}
      \cup
    {ObjectOf([netRevenue |-> nr, profitBeforeInterestAndTax |-> p,
               depreciation |-> dep, interestExpenses |-> ie]) :
        nr \in {Absent, PyInt(7)}, p \in NumeratorValues,
        dep \in NumeratorValues, ie \in InterestValues}

\* entries whose structure is a full pnl.lineItems object
FullEntries == {PyDict([pnl |-> PyDict([lineItems |-> li])]) : li \in LineItemsObjects}

\* entries whose structure is absent or not a mapping
BrokenEntries ==
    {PyNone,
     PyDict(<<>>),
     PyDict([pnl |-> PyNone]),
     PyDict([pnl |-> PyDict(<<>>)]),
     PyDict([pnl |-> PyDict([lineItems |-> PyNone])])}

SampleEntries ==
    {PyDict([pnl |-> PyDict([lineItems |->
        PyDict([netRevenue |-> PyInt(3), profitBeforeInterestAndTax |-> PyInt(4),
                depreciation |-> PyInt(1), interestExpenses |-> PyInt(1)])])]),
     PyDict(<<>>)}

\* lists of n entries: one entry ranges over `entries`, the rest over samples
EntryLists(n, entries) ==
    IF n = 0 THEN {<<>>}
    ELSE {[j \in 1..n |-> IF j = pos THEN e ELSE rest[j]] :
            pos \in 1..n, e \in entries, rest \in [1..n -> SampleEntries]}

RecordsOver(entries) ==
    {PyDict(<<>>), PyDict([financials |-> PyNone]), PyDict([financials |-> PyDict(<<>>)])}
      \cup {PyDict([financials |-> PyList(l)]) :
              l \in UNION {EntryLists(n, entries) : n \in 0..MaxEntries}}

Records == RecordsOver(FullEntries \cup BrokenEntries)

\* entries with a balance sheet, for the flags
ProbeEntries ==
    {ObjectOf([pnl |-> PyDict([lineItems |->
                 ObjectOf([netRevenue |-> nr, profitBeforeInterestAndTax |-> t[1],
                           depreciation |-> t[2], interestExpenses |-> t[3]])]),
               balanceSheet |-> bs]) :
        nr \in {Absent, PyNone, PyInt(0), PyInt(60000000), PyStr(<<"n">>)},
        t \in {<<Absent, Absent, Absent>>, <<PyInt(9), PyInt(0), PyInt(9)>>,
               <<PyInt(1000000), PyInt(0), PyInt(0)>>, <<PyInt(0), PyInt(0), PyInt(-1)>>,
               <<PyInt(0), PyStr(<<"n">>), PyInt(0)>>},
        bs \in {Absent, PyDict(<<>>), PyDict([totalBorrowing |-> PyInt(0)]),
                PyDict([totalBorrowing |-> PyInt(30000000)])}}

ProbeRecords == RecordsOver(ProbeEntries \cup BrokenEntries)

\* the answers the rule module can give for a record: a valid index, or the
\* sentinel when there is no entry
LatestPeriods(d) ==
    LET financials == IF "financials" \in DOMAIN d.m THEN d.m["financials"] ELSE PyNone
    IN IF financials.t # "list" THEN {PyNone}
       ELSE IF Len(financials.l) = 0 THEN {NoPeriod}
       ELSE {PyInt(n) : n \in 0..(Len(financials.l) - 1)}

Indices == {PyInt(n) : n \in (-(MaxEntries + 1))..MaxEntries}

----------------------------------------------------------------------------
(* Direct calls of the accessors *)

ProbeIdle ==
    /\ pc = "idle"
    /\ lastest_financial_index_value = PyNone
    /\ total_revenue_5cr_flag_value = PyNone
    /\ borrowing_to_revenue_flag_value = PyNone
    /\ iscr_flag_value = PyNone
    /\ calls = <<>>
    /\ outputs = <<>>

InitAccessor ==
    /\ data \in Records
    /\ financial_index \in Indices
    /\ last = "none"
    /\ ret = Return(PyNone)
    /\ latest_period = PyNone
    /\ ProbeIdle

CallTotalRevenue ==
    /\ ret' = total_revenue(data, financial_index)
    /\ last' = "total_revenue"
    /\ UNCHANGED <<data, financial_index, probeVars>>

CallIscr ==
    /\ ret' = iscr(data, financial_index)
    /\ last' = "iscr"
    /\ UNCHANGED <<data, financial_index, probeVars>>

NextAccessor == CallTotalRevenue \/ CallIscr

SpecAccessor == InitAccessor /\ [][NextAccessor]_vars

----------------------------------------------------------------------------
(* Invocations of probe_model_5l_profit *)

Init ==
    /\ data \in ProbeRecords
    /\ latest_period \in LatestPeriods(data)
    /\ financial_index = PyInt(0)
    /\ last = "none"
    /\ ret = Return(PyNone)
    /\ ProbeIdle

\* The fault of a collaborator leaves probe_model_5l_profit at once.
Propagate(out) ==
    /\ pc' = "idle"
    /\ outputs' = Append(outputs, out)

\* A caller invokes probe_model_5l_profit(data): fresh locals.
Invoke ==
    /\ pc = "idle"
    /\ Len(outputs) < MaxCalls
    /\ pc' = "latest"
    /\ calls' = <<>>
    /\ lastest_financial_index_value' = PyNone
    /\ total_revenue_5cr_flag_value' = PyNone
    /\ borrowing_to_revenue_flag_value' = PyNone
    /\ iscr_flag_value' = PyNone
    /\ UNCHANGED <<data, accessorVars, latest_period, outputs>>

\* CallLatestFinancialIndex keeping the index it got in the record
CallLatestFinancialIndex_caching ==
    /\ pc = "latest"
    /\ LET out == latest_financial_index(data)
       IN /\ calls' = Append(calls, Call("latest_financial_index", Absent, out))
          /\ IF out.k = "raise"
             THEN Propagate(out) /\ UNCHANGED <<data, lastest_financial_index_value>>
             ELSE /\ lastest_financial_index_value' = out.v
                  /\ data' = PyDict([key \in DOMAIN data.m \cup {"latest_index"} |->
                                       IF key = "latest_index" THEN out.v ELSE data.m[key]])
                  /\ pc' = "revenue"
                  /\ UNCHANGED outputs
    /\ UNCHANGED <<accessorVars, latest_period, total_revenue_5cr_flag_value,
                   borrowing_to_revenue_flag_value, iscr_flag_value>>

CallLatestFinancialIndex ==
    /\ pc = "latest"
    /\ LET out == latest_financial_index(data)
       IN /\ calls' = Append(calls, Call("latest_financial_index", Absent, out))
          /\ IF out.k = "raise"
             THEN Propagate(out) /\ UNCHANGED lastest_financial_index_value
             ELSE /\ lastest_financial_index_value' = out.v
                  /\ pc' = "revenue"
                  /\ UNCHANGED outputs
    /\ UNCHANGED <<data, accessorVars, latest_period, total_revenue_5cr_flag_value,
                   borrowing_to_revenue_flag_value, iscr_flag_value>>

CallTotalRevenue5crFlag ==
    /\ pc = "revenue"
    /\ LET out == total_revenue_5cr_flag(data, lastest_financial_index_value)
       IN /\ calls' = Append(calls, Call("total_revenue_5cr_flag",
                                         lastest_financial_index_value, out))
          /\ IF out.k = "raise"
             THEN Propagate(out) /\ UNCHANGED total_revenue_5cr_flag_value
             ELSE /\ total_revenue_5cr_flag_value' = out.v
                  /\ pc' = "borrowing"
                  /\ UNCHANGED outputs
    /\ UNCHANGED <<data, accessorVars, latest_period, lastest_financial_index_value,
                   borrowing_to_revenue_flag_value, iscr_flag_value>>

CallBorrowingToRevenueFlag ==
    /\ pc = "borrowing"
    /\ LET out == borrowing_to_revenue_flag(data, lastest_financial_index_value)
       IN /\ calls' = Append(calls, Call("borrowing_to_revenue_flag",
                                         lastest_financial_index_value, out))
          /\ IF out.k = "raise"
             THEN Propagate(out) /\ UNCHANGED borrowing_to_revenue_flag_value
             ELSE /\ borrowing_to_revenue_flag_value' = out.v
                  /\ pc' = "iscr"
                  /\ UNCHANGED outputs
    /\ UNCHANGED <<data, accessorVars, latest_period, lastest_financial_index_value,
                   total_revenue_5cr_flag_value, iscr_flag_value>>

\* CallIscrFlag selecting the latest index anew for its flag
CallIscrFlag_reselecting ==
    /\ pc = "iscr"
    /\ LET again == latest_financial_index(data)
           out == iscr_flag(data, again.v)
       IN /\ calls' = calls \o <<Call("latest_financial_index", Absent, again),
                                  Call("iscr_flag", again.v, out)>>
          /\ IF out.k = "raise"
             THEN Propagate(out) /\ UNCHANGED iscr_flag_value
             ELSE /\ iscr_flag_value' = out.v
                  /\ pc' = "return"
                  /\ UNCHANGED outputs
    /\ UNCHANGED <<data, accessorVars, latest_period, lastest_financial_index_value,
                   total_revenue_5cr_flag_value, borrowing_to_revenue_flag_value>>

CallIscrFlag ==
    /\ pc = "iscr"
    /\ LET out == iscr_flag(data, lastest_financial_index_value)
       IN /\ calls' = Append(calls, Call("iscr_flag", lastest_financial_index_value, out))
          /\ IF out.k = "raise"
             THEN Propagate(out) /\ UNCHANGED iscr_flag_value
             ELSE /\ iscr_flag_value' = out.v
                  /\ pc' = "return"
                  /\ UNCHANGED outputs
    /\ UNCHANGED <<data, accessorVars, latest_period, lastest_financial_index_value,
                   total_revenue_5cr_flag_value, borrowing_to_revenue_flag_value>>

ReturnFlags ==
    /\ pc = "return"
    /\ pc' = "idle"
    /\ outputs' = Append(outputs,
                         Return(FlagResult(total_revenue_5cr_flag_value,
                                           borrowing_to_revenue_flag_value,
                                           iscr_flag_value)))
    /\ UNCHANGED <<data, accessorVars, latest_period, locals, calls>>

Next ==
    \/ Invoke
    \/ CallLatestFinancialIndex
    \/ CallTotalRevenue5crFlag
    \/ CallBorrowingToRevenueFlag
    \/ CallIscrFlag
    \/ ReturnFlags

Spec == Init /\ [][Next]_vars

----------------------------------------------------------------------------
(* Reading the record directly, for the properties *)

Financials == IF "financials" \in DOMAIN data.m THEN data.m["financials"] ELSE Absent

\* financial_index is a valid index of the "financials" list
ValidIndex ==
    /\ Financials.t = "list"
    /\ financial_index.t = "int"
    /\ -Len(Financials.l) <= financial_index.i
    /\ financial_index.i < Len(Financials.l)

\* position (from 1) of the entry a valid index denotes
Position ==
    IF financial_index.i < 0 THEN Len(Financials.l) + financial_index.i + 1
    ELSE financial_index.i + 1

Entry == Financials.l[Position]

IsObject(x) == x.t = "dict"

\* the entry is a mapping, and "pnl" and "lineItems" are mappings where present
WellFormed(e) ==
    /\ IsObject(e)
    /\ "pnl" \in DOMAIN e.m =>
         /\ IsObject(e.m["pnl"])
         /\ "lineItems" \in DOMAIN e.m["pnl"].m => IsObject(e.m["pnl"].m["lineItems"])

LineItemsOf(e) ==
    IF "pnl" \in DOMAIN e.m /\ "lineItems" \in DOMAIN e.m["pnl"].m
    THEN e.m["pnl"].m["lineItems"].m
    ELSE <<>>

\* the line item of a well-formed entry, Absent when it is missing
ItemOf(e, name) ==
    IF name \in DOMAIN LineItemsOf(e) THEN LineItemsOf(e)[name] ELSE Absent

IscrFields == {"profitBeforeInterestAndTax", "depreciation", "interestExpenses"}

\* the integer a numeric or missing line item stands for
Amount(x) == IF x = Absent THEN 0 ELSE x.i

Zero == Return([t |-> "float", num |-> 0, den |-> 1])
One == Return([t |-> "float", num |-> 1, den |-> 1])

AtEntry == ValidIndex /\ WellFormed(Entry)

----------------------------------------------------------------------------
(* Properties of total_revenue and iscr, checked under SpecAccessor *)

\* C3: total_revenue never raises; every lookup or conversion failure is
\* caught inside the function.
C3_TotalRevenueNeverRaises ==
    last = "total_revenue" => ret.k = "return"

\* C4: at a valid index total_revenue returns the numeric netRevenue of the
\* entry at that index and of no other, and 0.0 for a non-numeric string.
C4_TotalRevenueOfEntry ==
    (last = "total_revenue" /\ AtEntry) =>
        LET netRevenue == ItemOf(Entry, "netRevenue")
        IN /\ netRevenue.t = "int" =>
                ret = Return([t |-> "float", num |-> netRevenue.i, den |-> 1])
           /\ (netRevenue.t = "str" /\ \E j \in 1..Len(netRevenue.s) : netRevenue.s[j] = "n")
                => ret = Zero

\* total_revenue took 60000000 from the second of two entries, the first
\* holding another value.
C4_Witness ==
    /\ last = "total_revenue" /\ AtEntry
    /\ Len(Financials.l) = 2 /\ Position = 2
    /\ ItemOf(Entry, "netRevenue") = PyInt(60000000)
    /\ WellFormed(Financials.l[1]) /\ ItemOf(Financials.l[1], "netRevenue") = PyInt(3)
    /\ ret = Return([t |-> "float", num |-> 60000000, den |-> 1])

\* C5: with numeric or missing line items at a valid index, iscr returns
\* exactly (profitBeforeInterestAndTax + depreciation + 1) / (interestExpenses + 1),
\* a missing field counting as 0.
C5_IscrFormula ==
    (/\ last = "iscr" /\ AtEntry
     /\ \A name \in IscrFields : ItemOf(Entry, name).t \in {"int", "absent"}) =>
        LET numerator == Amount(ItemOf(Entry, "profitBeforeInterestAndTax"))
                           + Amount(ItemOf(Entry, "depreciation")) + 1
            denominator == Amount(ItemOf(Entry, "interestExpenses")) + 1
        IN /\ ret.k = "return"
           /\ ret.v.t = "float"
           /\ ret.v.num * denominator = numerator * ret.v.den
           /\ numerator = denominator => ret = One

\* C6: iscr returns 0.0 and does not raise when "financials" is absent, the
\* index is outside the entries, or one of its three fields is a string or null.
C6_IscrFailureIsZero ==
    (/\ last = "iscr"
     /\ \/ Financials = Absent
        \/ Financials.t = "list" /\ ~ValidIndex
        \/ /\ AtEntry
           /\ \E name \in IscrFields : ItemOf(Entry, name).t \in {"str", "None"})
    => ret = Zero

\* C7 as stated: at a valid index an accessor returns 0.0, without raising,
\* when a line item it reads is missing.
C7_MissingIsZero ==
    /\ (last = "total_revenue" /\ AtEntry /\ ItemOf(Entry, "netRevenue") = Absent)
         => ret = Zero
    /\ (last = "iscr" /\ AtEntry /\ \E name \in IscrFields : ItemOf(Entry, name) = Absent)
         => ret = Zero

\* the entry, and the record, with the missing ISCR fields of the entry at the
\* index set to 0
FilledEntry(e) ==
    LET pnl == IF "pnl" \in DOMAIN e.m THEN e.m["pnl"].m ELSE <<>>
        items == LineItemsOf(e)
        filled == [name \in DOMAIN items \cup IscrFields |->
                     IF name \in DOMAIN items THEN items[name] ELSE PyInt(0)]
        pnlFilled == [key \in DOMAIN pnl \cup {"lineItems"} |->
                        IF key = "lineItems" THEN PyDict(filled) ELSE pnl[key]]
    IN PyDict([key \in DOMAIN e.m \cup {"pnl"} |->
                 IF key = "pnl" THEN PyDict(pnlFilled) ELSE e.m[key]])

FilledRecord ==
    PyDict([data.m EXCEPT !["financials"] =
              PyList([Financials.l EXCEPT ![Position] = FilledEntry(Entry)])])

\* C7 (amended): at a valid index total_revenue returns 0.0, without raising,
\* when netRevenue is missing; iscr does what it does on the same entry with
\* each missing field set to 0, which is 1.0 and no fault when all three of
\* its fields are missing.
C7_MissingDefaults ==
    /\ (last = "total_revenue" /\ AtEntry /\ ItemOf(Entry, "netRevenue") = Absent)
         => ret = Zero
    /\ (last = "iscr" /\ AtEntry /\ \E name \in IscrFields : ItemOf(Entry, name) = Absent)
         => /\ ret = iscr(FilledRecord, financial_index)
            /\ (\A name \in IscrFields : ItemOf(Entry, name) = Absent) => ret = One

\* iscr returned 1.0 on an entry without "pnl".
C7_Witness ==
    /\ last = "iscr" /\ AtEntry
    /\ "pnl" \notin DOMAIN Entry.m
    /\ ret = One

\* C10: with interestExpenses numeric or missing at a valid index, the
\* denominator interestExpenses + 1 is not zero and iscr has no
\* division-by-zero fault.
C10_NoDivisionByZero ==
    (/\ last = "iscr" /\ AtEntry
     /\ ItemOf(Entry, "interestExpenses").t \in {"int", "absent"}) =>
        /\ Amount(ItemOf(Entry, "interestExpenses")) + 1 # 0
        /\ ret # Raise("ZeroDivisionError")

----------------------------------------------------------------------------
(* Properties of probe_model_5l_profit, checked under Spec *)

Finished == pc = "idle" /\ outputs # <<>>

LastOutput == outputs[Len(outputs)]

Returned == Finished /\ LastOutput.k = "return"

FlagNames == {"TOTAL_REVENUE_5CR_FLAG", "BORROWING_TO_REVENUE_FLAG", "ISCR_FLAG"}

\* the rule function a flag is named after
RuleOf(key) ==
    CASE key = "TOTAL_REVENUE_5CR_FLAG" -> "total_revenue_5cr_flag"
      [] key = "BORROWING_TO_REVENUE_FLAG" -> "borrowing_to_revenue_flag"
      [] key = "ISCR_FLAG" -> "iscr_flag"

\* what the rule function of that name gives for (d, index)
RuleValue(key, d, index) ==
    CASE key = "TOTAL_REVENUE_5CR_FLAG" -> total_revenue_5cr_flag(d, index)
      [] key = "BORROWING_TO_REVENUE_FLAG" -> borrowing_to_revenue_flag(d, index)
      [] key = "ISCR_FLAG" -> iscr_flag(d, index)

\* C1: when probe_model_5l_profit returns, the result has the one key "flags",
\* whose value has exactly the three flag keys, each holding what the rule
\* function of the same name returned for (record, latest index).
C1_FlagResult ==
    Returned =>
        LET result == LastOutput.v
        IN /\ result.t = "dict"
           /\ DOMAIN result.m = {"flags"}
           /\ result.m["flags"].t = "dict"
           /\ DOMAIN result.m["flags"].m = FlagNames
           /\ \A key \in FlagNames :
                /\ \E j \in 1..Len(calls) :
                     /\ calls[j].fn = RuleOf(key)
                     /\ calls[j].index = latest_period
                     /\ calls[j].out = Return(result.m["flags"].m[key])
                /\ RuleValue(key, data, latest_period)
                     = Return(result.m["flags"].m[key])

\* probe_model_5l_profit returned three flags that are not all alike.
C1_Witness ==
    /\ Returned
    /\ LastOutput.v.m["flags"].m["TOTAL_REVENUE_5CR_FLAG"] = PyBool(TRUE)
    /\ LastOutput.v.m["flags"].m["BORROWING_TO_REVENUE_FLAG"] = PyBool(FALSE)
    /\ LastOutput.v.m["flags"].m["ISCR_FLAG"] = PyBool(TRUE)

CallOrder ==
    <<"latest_financial_index", "total_revenue_5cr_flag",
      "borrowing_to_revenue_flag", "iscr_flag">>

\* C2: in an invocation latest_financial_index is called once and first, the
\* three rule functions are called once each, after it, with the index it
\* returned; an invocation that returns has made all four calls.
C2_IndexSelectedOnce ==
    /\ Len(calls) <= Len(CallOrder)
    /\ \A j \in 1..Len(calls) : calls[j].fn = CallOrder[j]
    /\ \A j \in 2..Len(calls) :
         /\ calls[1].out.k = "return"
         /\ calls[j].index = calls[1].out.v
    /\ (pc = "return" \/ Returned) => Len(calls) = Len(CallOrder)

\* An invocation on two entries returned after all three rule functions got
\* the index of the second entry.
C2_Witness ==
    /\ Returned
    /\ Financials.t = "list" /\ Len(Financials.l) = 2
    /\ calls[1].out = Return(PyInt(1))
    /\ \A j \in 2..4 : calls[j].index = PyInt(1)

\* C8: probe_model_5l_profit never raises on a record whose "financials" is a
\* list.
C8_ProbeNeverRaises ==
    Financials.t = "list" => \A j \in 1..Len(outputs) : outputs[j].k = "return"

====
